---- MODULE Spec2Model ----
(***************************************************************************)
(* Room reservation API: the in-memory store                               *)
(* (in-memory_database/room_reservations_storage.js), the time helpers     *)
(* (utils/time_helpers.js) and the request handlers                        *)
(* (routes/reservations_router.js).  app.js holds an older copy of the     *)
(* same handlers in one file; its POST, GET and DELETE bodies are the same *)
(* statements, only its loadRoom differs (a range test on the room id      *)
(* instead of getRoomById).                                                *)
(*                                                                         *)
(* A request arrives (Receive) and its handler then runs to completion on  *)
(* the single JavaScript thread, so each handler is one action.  Instants  *)
(* are integer milliseconds since the epoch; the model uses instants close *)
(* to the epoch, the handlers only compare and subtract them.              *)
(*                                                                         *)
(* rooms, nextReservationId: the module state of the storage               *)
(* now:      Date.now()                                                    *)
(* req:      the request in flight, NoRequest when there is none           *)
(* waiting:  a request received while req is in flight, which the event    *)
(*           loop hands to its handler when the handler of req returns;    *)
(*           NoRequest when there is none                                  *)
(* res:      the response to the last request, NoResponse once anything    *)
(*           else has happened                                             *)
(* issued:   history, the ids of the reservations created since the last   *)
(*           initRooms(), in creation order                                *)
(* deleted:  history, the ids of the reservations deleted since the last   *)
(*           initRooms()                                                   *)
(***************************************************************************)
EXTENDS Integers, Sequences, FiniteSets, TLC

VARIABLES rooms, nextReservationId, now, req, waiting, res, issued, deleted

vars == <<rooms, nextReservationId, now, req, waiting, res, issued, deleted>>

(***************************************************************************)
(* Program constants                                                       *)
(***************************************************************************)
MINUTE == 60000
HOUR == 3600000
MAX_HOURS == 12
ROOM_COUNT == 10
\* JavaScript's NaN: a number that is no instant.  Number.isFinite is the
\* only operation the handlers apply to it before they return.
NaN == -999999999

(***************************************************************************)
(* Bounds of the model                                                     *)
(***************************************************************************)
\* largest reservation id the model hands out
MaxId == 2
\* largest instant the intervals given to intervalsOverlap reach
OverlapSpan == 4
\* the instants given to normalizeToMinute lie this many minutes on either
\* side of the epoch
TruncMinutes == 7

HalfMinute == MINUTE \div 2
\* the instants at which requests arrive: the middle of minute 0 and the
\* start of minute 1
Clock == {HalfMinute, MINUTE}

\* minutes used by the request inputs: three consecutive minutes and the
\* minute 12 hours after the second one
InputMinutes == {0, 1, 2, 1 + MAX_HOURS * 60}
RawInstants == {m * MINUTE : m \in InputMinutes} \cup {HalfMinute}

(***************************************************************************)
(* Texts: the start/end values of a request body and the ISO strings of    *)
(* the responses.  An ISO string is modelled by its fields (day number     *)
(* since the epoch, hours, minutes, seconds, milliseconds).                *)
(***************************************************************************)
DAY == 24 * HOUR

IsoText(d, h, m, s, ms) == [kind |-> "iso", d |-> d, h |-> h, m |-> m, s |-> s, ms |-> ms]
Absent == [kind |-> "absent", d |-> 0, h |-> 0, m |-> 0, s |-> 0, ms |-> 0]
NonString == [kind |-> "nonstring", d |-> 0, h |-> 0, m |-> 0, s |-> 0, ms |-> 0]
Garbage == [kind |-> "garbage", d |-> 0, h |-> 0, m |-> 0, s |-> 0, ms |-> 0]

\* new Date(ms).toISOString()
toISOString(t) ==
  IsoText(t \div DAY, (t % DAY) \div HOUR, (t % HOUR) \div MINUTE,
          (t % MINUTE) \div 1000, t % 1000)

\* Date.parse(isoString) for a string
DateParse(text) ==
  IF text.kind = "iso"
    THEN text.d * DAY + text.h * HOUR + text.m * MINUTE + text.s * 1000 + text.ms
    ELSE NaN

NumberIsFinite(x) == x # NaN

\* mutant: no value counts as missing
Falsy_Never(text) == FALSE

\* a falsy body field: undefined, null or the empty string
Falsy(text) == text.kind = "absent"

(***************************************************************************)
(* utils/time_helpers.js                                                   *)
(***************************************************************************)
\* mutant: a value that does not parse counts as the epoch
parseIsoToMs_ZeroOnFailure(isoString) ==
  IF isoString.kind \notin {"iso", "garbage"} THEN 0
  ELSE LET ms == DateParse(isoString) IN IF NumberIsFinite(ms) THEN ms ELSE 0

\* parseIsoToMs: NaN for a non-string and for a string Date.parse rejects
parseIsoToMs(isoString) ==
  IF isoString.kind \notin {"iso", "garbage"} THEN NaN
  ELSE LET ms == DateParse(isoString) IN IF NumberIsFinite(ms) THEN ms ELSE NaN

\* mutant: no truncation
normalizeToMinute_Identity(ms) == ms

\* mutant: truncation to the second
normalizeToMinute_ToSecond(ms) == (ms \div 1000) * 1000

\* mutant: the seconds are cleared and the milliseconds are kept
normalizeToMinute_KeepsMillis(ms) == ms - (((ms % MINUTE) \div 1000) * 1000)

\* mutant: Math.trunc instead of Math.floor, rounding toward zero
normalizeToMinute_TowardZero(ms) ==
  IF ms >= 0 THEN (ms \div MINUTE) * MINUTE ELSE 0 - (((0 - ms) \div MINUTE) * MINUTE)

\* normalizeToMinute: Math.floor(ms / 60000) * 60000
normalizeToMinute(ms) == (ms \div MINUTE) * MINUTE

isValidInterval(startMs, endMs) ==
  NumberIsFinite(startMs) /\ NumberIsFinite(endMs) /\ endMs > startMs

\* mutant: the start is compared with the clock itself, not with its minute
isInPast_RawNow(startMs, dateNow) == startMs < dateNow

\* mutant: the past check is left out
isInPast_Never(startMs, dateNow) == FALSE

isInPast(startMs, dateNow) ==
  LET nowRounded == normalizeToMinute(dateNow) IN startMs < nowRounded

\* mutant: an overlap only when the first interval starts inside the second
intervalsOverlap_StartInside(aStart, aEnd, bStart, bEnd) == bStart <= aStart /\ aStart < bEnd

\* mutant: closed intervals, touching ends overlap
intervalsOverlap_Closed(aStart, aEnd, bStart, bEnd) == aStart <= bEnd /\ bStart <= aEnd

\* mutant: either comparison suffices
intervalsOverlap_Either(aStart, aEnd, bStart, bEnd) == aStart < bEnd \/ bStart < aEnd

\* intervalsOverlap: half-open intervals [start, end)
intervalsOverlap(aStart, aEnd, bStart, bEnd) == aStart < bEnd /\ bStart < aEnd

isTooLong(startMs, endMs) == (endMs - startMs) > MAX_HOURS * HOUR

(***************************************************************************)
(* URL parameters (:roomId, :reservationId) are strings; Number(param) is  *)
(* a rational num/den or NaN.                                              *)
(***************************************************************************)
IntParam(n) == [kind |-> "num", num |-> n, den |-> 1]
HalfParam(n) == [kind |-> "num", num |-> 2 * n + 1, den |-> 2]
TextParam == [kind |-> "text", num |-> 0, den |-> 1]

\* Number(param): finite for a numeric string, NaN otherwise
ParamNumber(p) == [finite |-> p.kind = "num", num |-> p.num, den |-> p.den]

\* r.id === Number(param)
IdEquals(id, n) == n.finite /\ id * n.den = n.num

(***************************************************************************)
(* in-memory_database/room_reservations_storage.js                         *)
(***************************************************************************)
\* mutant: the loop index is the id, the ids are 0..9
initRooms_ZeroBased == [i \in 1..ROOM_COUNT |-> [id |-> i - 1, reservations |-> <<>>]]

\* the rooms array after initRooms(); the display name is never read
initRooms == [i \in 1..ROOM_COUNT |-> [id |-> i, reservations |-> <<>>]]

\* index in rooms of the room found, 0 when find returns undefined
getRoomById(rs, roomId) ==
  LET hits == {i \in 1..Len(rs) : IdEquals(rs[i].id, roomId)}
  IN IF hits = {} THEN 0 ELSE CHOOSE i \in hits : \A j \in hits : i <= j

\* index (from 1) of the first reservation with the id, 0 for findIndex's -1
findIndexById(reservations, reservationId) ==
  LET hits == {i \in 1..Len(reservations) : IdEquals(reservations[i].id, reservationId)}
  IN IF hits = {} THEN 0 ELSE CHOOSE i \in hits : \A j \in hits : i <= j

\* mutant: splice(idx) without a count removes everything from idx on
Splice_ToEnd(reservations, idx) == SubSeq(reservations, 1, idx - 1)

\* reservations.splice(idx, 1)
Splice(reservations, idx) ==
  [i \in 1..(Len(reservations) - 1) |->
     IF i < idx THEN reservations[i] ELSE reservations[i + 1]]

\* mutant: the scan skips the first stored reservation
findConflict_SkipFirst(reservations, startMs, endMs) ==
  LET hits == {i \in 2..Len(reservations) :
                 intervalsOverlap(startMs, endMs, reservations[i].startMs, reservations[i].endMs)}
  IN IF hits = {} THEN 0 ELSE CHOOSE i \in hits : \A j \in hits : i <= j

\* mutant: the scan misses the reservation pushed last, as a check made
\* before the insert of another request would
findConflict_SkipLast(reservations, startMs, endMs) ==
  LET hits == {i \in 1..(Len(reservations) - 1) :
                 intervalsOverlap(startMs, endMs, reservations[i].startMs, reservations[i].endMs)}
  IN IF hits = {} THEN 0 ELSE CHOOSE i \in hits : \A j \in hits : i <= j

\* mutant: the overlapping reservation with the earliest start is reported
findConflict_EarliestStart(reservations, startMs, endMs) ==
  LET hits == {i \in 1..Len(reservations) :
                 intervalsOverlap(startMs, endMs, reservations[i].startMs, reservations[i].endMs)}
  IN IF hits = {} THEN 0
     ELSE CHOOSE i \in hits : \A j \in hits : reservations[i].startMs <= reservations[j].startMs

\* index of the first stored reservation overlapping [startMs, endMs), 0 if none
findConflict(reservations, startMs, endMs) ==
  LET hits == {i \in 1..Len(reservations) :
                 intervalsOverlap(startMs, endMs, reservations[i].startMs, reservations[i].endMs)}
  IN IF hits = {} THEN 0 ELSE CHOOSE i \in hits : \A j \in hits : i <= j

\* mutant: the rooms share one reservations array
addReservationToRoom_Shared(rs, idx, reservation) ==
  [i \in 1..Len(rs) |-> [rs[i] EXCEPT !.reservations = Append(@, reservation)]]

\* room.reservations.push(reservation) on the room at index idx
addReservationToRoom(rs, idx, reservation) ==
  [rs EXCEPT ![idx].reservations = Append(@, reservation)]

\* mutant: the reservation is found and returned but not spliced out
removeReservationFromRoom_NoSplice(rs, idx, reservationId) == rs

\* mutant: no test of findIndex's -1, splice(-1, 1) removes the last record
removeReservationFromRoom_SpliceMinusOne(rs, idx, reservationId) ==
  LET k == findIndexById(rs[idx].reservations, reservationId)
      n == Len(rs[idx].reservations)
  IN IF k = 0 /\ n = 0 THEN rs
     ELSE [rs EXCEPT ![idx].reservations = Splice(@, IF k = 0 THEN n ELSE k)]

\* removeReservationFromRoom: the rooms array after the splice (unchanged
\* when findIndex returns -1)
removeReservationFromRoom(rs, idx, reservationId) ==
  LET k == findIndexById(rs[idx].reservations, reservationId)
  IN IF k = 0 THEN rs
     ELSE [rs EXCEPT ![idx].reservations = Splice(@, k)]

\* mutant: the counter is read and never incremented
getNextReservationId_NoIncrement(counter) == [id |-> counter, next |-> counter]

\* mutant: ++nextReservationId, the incremented value is returned
getNextReservationId_PreIncrement(counter) == [id |-> counter + 1, next |-> counter + 1]

\* getNextReservationId: nextReservationId++ returns the old value
getNextReservationId(counter) == [id |-> counter, next |-> counter + 1]

(***************************************************************************)
(* routes/reservations_router.js                                           *)
(***************************************************************************)
\* the JSON view of a stored reservation in the responses
View(r) == [id |-> r.id, start |-> r.startIso, end |-> r.endIso, createdAt |-> r.createdAt]
ConflictView(r) == [id |-> r.id, start |-> r.startIso, end |-> r.endIso]

Response(op, status, error, reservation, conflict, list) ==
  [op |-> op, status |-> status, error |-> error, roomId |-> 0,
   reservation |-> reservation, conflict |-> conflict, list |-> list]

\* roomId: req.room.id in the bodies of the 200 and 201 answers
InRoom(response, roomId) == [response EXCEPT !.roomId = roomId]

Failure(op, status, error) == Response(op, status, error, <<>>, <<>>, <<>>)

\* loadRoom: index of req.room in rooms, 0 when the middleware answers 404
loadRoom(rs, roomIdParam) ==
  LET roomId == ParamNumber(roomIdParam)
  IN IF ~roomId.finite THEN 0 ELSE getRoomById(rs, roomId)

\* Array.prototype.sort((a, b) => a.startMs - b.startMs) on a copy: stable
\* mutant: no sort, the list keeps the insertion order
InsertByStart_Append(sorted, r) == Append(sorted, r)

\* mutant: the comparator is b.startMs - a.startMs, the latest start first
InsertByStart_Descending(sorted, r) ==
  LET k == Cardinality({i \in 1..Len(sorted) : sorted[i].startMs >= r.startMs})
  IN SubSeq(sorted, 1, k) \o <<r>> \o SubSeq(sorted, k + 1, Len(sorted))

InsertByStart(sorted, r) ==
  LET k == Cardinality({i \in 1..Len(sorted) : sorted[i].startMs <= r.startMs})
  IN SubSeq(sorted, 1, k) \o <<r>> \o SubSeq(sorted, k + 1, Len(sorted))
RECURSIVE SortByStart(_)
SortByStart(s) ==
  IF s = <<>> THEN <<>>
  ELSE InsertByStart(SortByStart(SubSeq(s, 1, Len(s) - 1)), s[Len(s)])

\* the requests: op is the route, the other fields are the URL parameters
\* and the body fields the route reads
Request(op, roomId, start, end, reservationId) ==
  [op |-> op, roomId |-> roomId, start |-> start, end |-> end,
   reservationId |-> reservationId]
NoRequest == Request("none", TextParam, Absent, Absent, TextParam)
NoResponse == Failure("none", 0, "")

\* the checks of the POST handler, in the order of the code: the failure
\* response of the first check that fails, or status 0 when all pass
CreateChecks(rs, dateNow, roomIdParam, start, end) ==
  LET idx == loadRoom(rs, roomIdParam)
      rawStartMs == parseIsoToMs(start)
      rawEndMs == parseIsoToMs(end)
      startMs == normalizeToMinute(rawStartMs)
      endMs == normalizeToMinute(rawEndMs)
      c == findConflict(rs[idx].reservations, startMs, endMs)
  IN IF idx = 0 THEN Failure("create", 404, "Room not found")
     ELSE IF Falsy(start) \/ Falsy(end)
       THEN Failure("create", 400, "Request body must include start and end")
     ELSE IF ~isValidInterval(rawStartMs, rawEndMs)
       THEN Failure("create", 400, "Invalid times")
     ELSE IF ~isValidInterval(startMs, endMs)
       THEN Failure("create", 400, "Invalid interval after normalization")
     ELSE IF isInPast(startMs, dateNow)
       THEN Failure("create", 400, "Reservation start time in UTC is in the past")
     ELSE IF c # 0
       THEN Response("create", 409, "Time conflict with existing reservation",
                     <<>>, <<ConflictView(rs[idx].reservations[c])>>, <<>>)
     ELSE Failure("create", 0, "")

\* mutant: the display end is formatted from the start instant
createReservation_EndFromStart(id, startMs, endMs, createdNow) ==
  [id |-> id, startMs |-> startMs, endMs |-> endMs,
   startIso |-> toISOString(startMs), endIso |-> toISOString(startMs),
   createdAt |-> toISOString(createdNow)]

\* the reservation object literal of the POST handler
createReservation(id, startMs, endMs, createdNow) ==
  [id |-> id, startMs |-> startMs, endMs |-> endMs,
   startIso |-> toISOString(startMs), endIso |-> toISOString(endMs),
   createdAt |-> toISOString(createdNow)]

\* a request arrives; the clock and the store wait for its handler
Receive(r) ==
  /\ req = NoRequest
  /\ req' = r
  /\ res' = NoResponse
  /\ UNCHANGED <<rooms, nextReservationId, now, waiting, issued, deleted>>

\* a second request arrives while the handler of req has not run yet
Arrive(r) ==
  /\ req # NoRequest
  /\ waiting = NoRequest
  /\ waiting' = r
  /\ UNCHANGED <<rooms, nextReservationId, now, req, res, issued, deleted>>

\* mutant: the id is taken before the checks, a rejected request consumes it
PostReservation_IdBeforeChecks(createdNow) ==
  LET checked == CreateChecks(rooms, now, req.roomId, req.start, req.end)
      idx == loadRoom(rooms, req.roomId)
      startMs == normalizeToMinute(parseIsoToMs(req.start))
      endMs == normalizeToMinute(parseIsoToMs(req.end))
      alloc == getNextReservationId(nextReservationId)
      reservation == createReservation(alloc.id, startMs, endMs, createdNow)
  IN /\ req.op = "create"
     /\ req' = waiting
     /\ waiting' = NoRequest
     /\ nextReservationId <= MaxId
     /\ nextReservationId' = alloc.next
     /\ IF checked.status # 0
          THEN /\ createdNow = now
               /\ res' = checked
               /\ UNCHANGED <<rooms, now, issued, deleted>>
          ELSE /\ createdNow >= now
               /\ rooms' = addReservationToRoom(rooms, idx, reservation)
               /\ now' = createdNow
               /\ res' = InRoom(Response("create", 201, "", <<View(reservation)>>, <<>>, <<>>),
                             rooms[idx].id)
               /\ issued' = Append(issued, reservation.id)
               /\ UNCHANGED deleted

\* POST /rooms/:roomId/reservations.  createdNow is the clock when the
\* handler captures createdAt, not earlier than the clock isInPast read.
PostReservation(createdNow) ==
  LET checked == CreateChecks(rooms, now, req.roomId, req.start, req.end)
      idx == loadRoom(rooms, req.roomId)
      startMs == normalizeToMinute(parseIsoToMs(req.start))
      endMs == normalizeToMinute(parseIsoToMs(req.end))
      alloc == getNextReservationId(nextReservationId)
      reservation == createReservation(alloc.id, startMs, endMs, createdNow)
  IN /\ req.op = "create"
     /\ req' = waiting
     /\ waiting' = NoRequest
     /\ IF checked.status # 0
          THEN /\ createdNow = now
               /\ res' = checked
               /\ UNCHANGED <<rooms, nextReservationId, now, issued, deleted>>
          ELSE /\ nextReservationId <= MaxId
               /\ createdNow >= now
               /\ nextReservationId' = alloc.next
               /\ rooms' = addReservationToRoom(rooms, idx, reservation)
               /\ now' = createdNow
               /\ res' = InRoom(Response("create", 201, "", <<View(reservation)>>, <<>>, <<>>),
                             rooms[idx].id)
               /\ issued' = Append(issued, reservation.id)
               /\ UNCHANGED deleted

\* mutant: sort() without slice(), the stored array itself is sorted
GetReservations_SortInPlace ==
  LET idx == loadRoom(rooms, req.roomId)
      sorted == SortByStart(rooms[idx].reservations)
  IN /\ req.op = "list"
     /\ req' = waiting
     /\ waiting' = NoRequest
     /\ res' = IF idx = 0 THEN Failure("list", 404, "Room not found")
               ELSE InRoom(Response("list", 200, "", <<>>, <<>>,
                                    [i \in 1..Len(sorted) |-> View(sorted[i])]),
                           rooms[idx].id)
     /\ rooms' = IF idx = 0 THEN rooms ELSE [rooms EXCEPT ![idx].reservations = sorted]
     /\ UNCHANGED <<nextReservationId, now, issued, deleted>>

\* GET /rooms/:roomId/reservations
GetReservations ==
  LET idx == loadRoom(rooms, req.roomId)
      sorted == SortByStart(rooms[idx].reservations)
  IN /\ req.op = "list"
     /\ req' = waiting
     /\ waiting' = NoRequest
     /\ res' = IF idx = 0 THEN Failure("list", 404, "Room not found")
               ELSE InRoom(Response("list", 200, "", <<>>, <<>>,
                                    [i \in 1..Len(sorted) |-> View(sorted[i])]),
                           rooms[idx].id)
     /\ UNCHANGED <<rooms, nextReservationId, now, issued, deleted>>

\* DELETE /rooms/:roomId/reservations/:reservationId
DeleteReservation ==
  LET idx == loadRoom(rooms, req.roomId)
      reservationId == ParamNumber(req.reservationId)
      k == findIndexById(rooms[idx].reservations, reservationId)
  IN /\ req.op = "delete"
     /\ req' = waiting
     /\ waiting' = NoRequest
     /\ IF idx = 0
          THEN /\ res' = Failure("delete", 404, "Room not found")
               /\ UNCHANGED <<rooms, nextReservationId, now, issued, deleted>>
        ELSE IF ~reservationId.finite
          THEN /\ res' = Failure("delete", 400, "Invalid reservation id")
               /\ UNCHANGED <<rooms, nextReservationId, now, issued, deleted>>
        ELSE /\ rooms' = removeReservationFromRoom(rooms, idx, reservationId)
             /\ IF k = 0
                  THEN /\ res' = Failure("delete", 404, "Reservation not found")
                       /\ UNCHANGED deleted
                  ELSE /\ res' = InRoom(Response("delete", 200, "",
                                                 <<View(rooms[idx].reservations[k])>>,
                                                 <<>>, <<>>),
                                        rooms[idx].id)
                       /\ deleted' = deleted \cup {rooms[idx].reservations[k].id}
             /\ UNCHANGED <<nextReservationId, now, issued>>

\* what res holds right after resetData(), which answers nothing
ResetDone == Failure("reset", 0, "")

\* mutant: the rooms are rebuilt, the id counter keeps its value
Reset_KeepsCounter ==
  /\ req = NoRequest
  /\ rooms' = initRooms
  /\ res' = ResetDone
  /\ issued' = <<>>
  /\ deleted' = {}
  /\ UNCHANGED <<nextReservationId, now, req, waiting>>

\* resetData(): initRooms() again, between two requests
Reset ==
  /\ req = NoRequest
  /\ rooms' = initRooms
  /\ nextReservationId' = 1
  /\ res' = ResetDone
  /\ issued' = <<>>
  /\ deleted' = {}
  /\ UNCHANGED <<now, req, waiting>>

\* the wall clock advances between two requests
Tick ==
  /\ req = NoRequest
  /\ \E t \in Clock : t > now /\ now' = t
  /\ res' = NoResponse
  /\ UNCHANGED <<rooms, nextReservationId, req, waiting, issued, deleted>>

(***************************************************************************)
(* app.js: the application with its own middleware and handlers over the   *)
(* same store.  Its loadRoom tests the range of the number and then looks  *)
(* the room up; a handler that reads req.room when the lookup found none   *)
(* throws, and the generic error handler answers 500.                      *)
(***************************************************************************)
Undefined == 0 - 1

InternalError(op) == Failure(op, 500, "Internal server error")

\* loadRoom of app.js: 0 when the middleware answers 404, the index of
\* req.room in rooms otherwise, Undefined when rooms.find found no room
app_loadRoom(rs, roomIdParam) ==
  LET roomId == ParamNumber(roomIdParam)
      hits == {i \in 1..Len(rs) : IdEquals(rs[i].id, roomId)}
  IN IF ~roomId.finite \/ roomId.num < roomId.den \/ roomId.num > Len(rs) * roomId.den
       THEN 0
     ELSE IF hits = {} THEN Undefined
     ELSE CHOOSE i \in hits : \A j \in hits : i <= j

\* the checks of the POST handler of app.js, in the order of the code
app_CreateChecks(rs, dateNow, roomIdParam, start, end) ==
  LET idx == app_loadRoom(rs, roomIdParam)
      rawStartMs == parseIsoToMs(start)
      rawEndMs == parseIsoToMs(end)
      startMs == normalizeToMinute(rawStartMs)
      endMs == normalizeToMinute(rawEndMs)
      c == findConflict(rs[idx].reservations, startMs, endMs)
  IN IF idx = 0 THEN Failure("create", 404, "Room not found")
     ELSE IF Falsy(start) \/ Falsy(end)
       THEN Failure("create", 400, "Request body must include start and end")
     ELSE IF ~isValidInterval(rawStartMs, rawEndMs)
       THEN Failure("create", 400, "Invalid times")
     ELSE IF ~isValidInterval(startMs, endMs)
       THEN Failure("create", 400, "Invalid interval after normalization")
     ELSE IF isInPast(startMs, dateNow)
       THEN Failure("create", 400, "Reservation start time is in the past")
     ELSE IF idx = Undefined THEN InternalError("create")
     ELSE IF c # 0
       THEN Response("create", 409, "Time conflict with existing reservation",
                     <<>>, <<ConflictView(rs[idx].reservations[c])>>, <<>>)
     ELSE Failure("create", 0, "")

\* app.post('/api/v1/rooms/:roomId/reservations')
app_PostReservation(createdNow) ==
  LET checked == app_CreateChecks(rooms, now, req.roomId, req.start, req.end)
      idx == app_loadRoom(rooms, req.roomId)
      startMs == normalizeToMinute(parseIsoToMs(req.start))
      endMs == normalizeToMinute(parseIsoToMs(req.end))
      alloc == getNextReservationId(nextReservationId)
      reservation == createReservation(alloc.id, startMs, endMs, createdNow)
  IN /\ req.op = "create"
     /\ req' = waiting
     /\ waiting' = NoRequest
     /\ IF checked.status # 0
          THEN /\ createdNow = now
               /\ res' = checked
               /\ UNCHANGED <<rooms, nextReservationId, now, issued, deleted>>
          ELSE /\ nextReservationId <= MaxId
               /\ createdNow >= now
               /\ nextReservationId' = alloc.next
               /\ rooms' = addReservationToRoom(rooms, idx, reservation)
               /\ now' = createdNow
               /\ res' = InRoom(Response("create", 201, "", <<View(reservation)>>, <<>>, <<>>),
                             rooms[idx].id)
               /\ issued' = Append(issued, reservation.id)
               /\ UNCHANGED deleted

\* app.get('/api/v1/rooms/:roomId/reservations')
app_GetReservations ==
  LET idx == app_loadRoom(rooms, req.roomId)
      sorted == SortByStart(rooms[idx].reservations)
  IN /\ req.op = "list"
     /\ req' = waiting
     /\ waiting' = NoRequest
     /\ res' = IF idx = 0 THEN Failure("list", 404, "Room not found")
               ELSE IF idx = Undefined THEN InternalError("list")
               ELSE InRoom(Response("list", 200, "", <<>>, <<>>,
                                    [i \in 1..Len(sorted) |-> View(sorted[i])]),
                           rooms[idx].id)
     /\ UNCHANGED <<rooms, nextReservationId, now, issued, deleted>>

\* app.delete('/api/v1/rooms/:roomId/reservations/:reservationId')
app_DeleteReservation ==
  LET idx == app_loadRoom(rooms, req.roomId)
      reservationId == ParamNumber(req.reservationId)
      k == findIndexById(rooms[idx].reservations, reservationId)
  IN /\ req.op = "delete"
     /\ req' = waiting
     /\ waiting' = NoRequest
     /\ IF idx = 0
          THEN /\ res' = Failure("delete", 404, "Room not found")
               /\ UNCHANGED <<rooms, nextReservationId, now, issued, deleted>>
        ELSE IF ~reservationId.finite
          THEN /\ res' = Failure("delete", 400, "Invalid reservation id")
               /\ UNCHANGED <<rooms, nextReservationId, now, issued, deleted>>
        ELSE IF idx = Undefined
          THEN /\ res' = InternalError("delete")
               /\ UNCHANGED <<rooms, nextReservationId, now, issued, deleted>>
        ELSE IF k = 0
          THEN /\ res' = Failure("delete", 404, "Reservation not found")
               /\ UNCHANGED <<rooms, nextReservationId, now, issued, deleted>>
        ELSE /\ rooms' = [rooms EXCEPT ![idx].reservations = Splice(@, k)]
             /\ res' = InRoom(Response("delete", 200, "",
                                       <<View(rooms[idx].reservations[k])>>, <<>>, <<>>),
                              rooms[idx].id)
             /\ deleted' = deleted \cup {rooms[idx].reservations[k].id}
             /\ UNCHANGED <<nextReservationId, now, issued>>

(***************************************************************************)
(* Request inputs                                                          *)
(***************************************************************************)
RoomParams == {IntParam(1), IntParam(2), IntParam(ROOM_COUNT + 1), HalfParam(1), TextParam}
ValidRoomParams == {IntParam(1), IntParam(2)}
ReservationParams == {IntParam(i) : i \in 1..(MaxId + 1)} \cup {HalfParam(1), TextParam}
TimeInputs == {Absent, NonString, Garbage} \cup {toISOString(t) : t \in RawInstants}

\* request bodies: every pair of instants with the end not before the start,
\* one pair with the end before the start, every missing or unparseable
\* value next to an instant, on either side, and every pair of missing or
\* unparseable values
Bodies ==
  {b \in [start : TimeInputs, end : TimeInputs] :
     \/ b.start.kind = "iso" /\ b.end.kind = "iso" /\ DateParse(b.start) <= DateParse(b.end)
     \/ b.start = toISOString(2 * MINUTE) /\ b.end = toISOString(MINUTE)
     \/ b.start = toISOString(MINUTE) /\ b.end.kind # "iso"
     \/ b.start.kind # "iso" /\ b.end = toISOString(2 * MINUTE)
     \/ b.start.kind # "iso" /\ b.end.kind # "iso"}

\* create requests: every body on the rooms 1 and 2, the body without fields
\* and one well-formed body on the room ids the middleware rejects
CreateRequests ==
  {Request("create", p, b.start, b.end, TextParam) : p \in ValidRoomParams, b \in Bodies}
  \cup {Request("create", p, Absent, Absent, TextParam) : p \in RoomParams}
  \cup {Request("create", p, toISOString(MINUTE), toISOString(2 * MINUTE), TextParam) :
          p \in RoomParams}

ListRequests == {Request("list", p, Absent, Absent, TextParam) : p \in RoomParams}

\* delete requests: every reservation id on the rooms 1 and 2, and the
\* id 1 on the room ids the middleware rejects
DeleteRequests ==
  {Request("delete", p, Absent, Absent, q) : p \in ValidRoomParams, q \in ReservationParams}
  \cup {Request("delete", p, Absent, Absent, IntParam(1)) : p \in RoomParams}

Requests == CreateRequests \cup ListRequests \cup DeleteRequests

Init ==
  /\ rooms = initRooms
  /\ nextReservationId = 1
  /\ now = HalfMinute
  /\ req = NoRequest
  /\ waiting = NoRequest
  /\ res = NoResponse
  /\ issued = <<>>
  /\ deleted = {}

ReceiveStep == \E r \in Requests : Receive(r)
PostStep == \E t \in Clock : PostReservation(t)

Next == ReceiveStep \/ PostStep \/ GetReservations \/ DeleteReservation \/ Reset \/ Tick

Spec == Init /\ [][Next]_vars

\* the requests served by app.js
app_PostStep == \E t \in Clock : app_PostReservation(t)

NextApp ==
  ReceiveStep \/ app_PostStep \/ app_GetReservations \/ app_DeleteReservation \/ Reset \/ Tick

SpecApp == Init /\ [][NextApp]_vars

\* two requests in flight at once: create requests with a well-formed
\* interval within the first hour, the second on the room of the first,
\* received before the handler of the first has run
ConcRequests ==
  {r \in CreateRequests :
     /\ r.roomId \in ValidRoomParams
     /\ r.start.kind = "iso" /\ r.end.kind = "iso"
     /\ DateParse(r.start) < DateParse(r.end)
     /\ DateParse(r.end) < HOUR}

\* the deletes of the concurrent runs: integer ids on the rooms 1 and 2
ConcDeletes ==
  {d \in DeleteRequests : d.roomId \in ValidRoomParams /\ d.reservationId.kind = "num"}

ArriveStep ==
  \E r \in ConcRequests :
    /\ req \in ConcRequests \cup ConcDeletes
    /\ res = NoResponse
    /\ r.roomId = req.roomId
    /\ Arrive(r)

\* the traffic of the concurrent runs: these creates, and the deletes on
\* the rooms 1 and 2
ConcReceiveStep ==
  \E r \in ConcRequests \cup {d \in DeleteRequests : d.roomId \in ValidRoomParams} :
    Receive(r)

NextConc ==
  ConcReceiveStep \/ ArriveStep \/ PostStep \/ DeleteReservation \/ Reset \/ Tick

SpecConc == Init /\ [][NextConc]_vars

(***************************************************************************)
(* The time helpers called on their own: req holds the arguments of one    *)
(* call, res its result; the store is idle.                                *)
(***************************************************************************)
StoreIdle ==
  /\ rooms = initRooms
  /\ nextReservationId = 1
  /\ now = HalfMinute
  /\ waiting = NoRequest
  /\ res = NoResponse
  /\ issued = <<>>
  /\ deleted = {}

\* pairs of well-formed intervals with instants in 0..OverlapSpan
OverlapCalls ==
  {[op |-> "intervalsOverlap", aStart |-> a, aEnd |-> b, bStart |-> c, bEnd |-> d] :
     a, b, c, d \in 0..OverlapSpan}

InitOverlap ==
  /\ StoreIdle
  /\ req \in {c \in OverlapCalls : c.aStart < c.aEnd /\ c.bStart < c.bEnd}

\* intervalsOverlap on the two intervals, in both orders of the arguments
CallIntervalsOverlap ==
  /\ req.op = "intervalsOverlap"
  /\ res = NoResponse
  /\ res' = [op |-> "intervalsOverlap",
             value |-> intervalsOverlap(req.aStart, req.aEnd, req.bStart, req.bEnd),
             swapped |-> intervalsOverlap(req.bStart, req.bEnd, req.aStart, req.aEnd)]
  /\ UNCHANGED <<rooms, nextReservationId, now, req, waiting, issued, deleted>>

SpecOverlap == InitOverlap /\ [][CallIntervalsOverlap]_vars

\* integer instants around the epoch, negative ones included: the start,
\* the first millisecond, the middle and the last millisecond of a minute
TruncCalls ==
  {[op |-> "normalizeToMinute", ms |-> k * MINUTE + d] :
     k \in (0 - TruncMinutes)..TruncMinutes, d \in {0, 1, HalfMinute, MINUTE - 1}}

InitTrunc ==
  /\ StoreIdle
  /\ req \in TruncCalls

CallNormalizeToMinute ==
  /\ req.op = "normalizeToMinute"
  /\ res = NoResponse
  /\ res' = [op |-> "normalizeToMinute", value |-> normalizeToMinute(req.ms)]
  /\ UNCHANGED <<rooms, nextReservationId, now, req, waiting, issued, deleted>>

SpecTrunc == InitTrunc /\ [][CallNormalizeToMinute]_vars

\* pairs of raw instants as parseIsoToMs returns them for two valid texts
IntervalCalls ==
  {[op |-> "normalizeInterval", rawStartMs |-> x.ms, rawEndMs |-> y.ms] :
     x \in TruncCalls, y \in TruncCalls}

InitInterval ==
  /\ StoreIdle
  /\ req \in IntervalCalls

\* the two interval checks of the create handler, before and after the
\* normalization; again is normalizeToMinute applied to its own results
NormalizeInterval ==
  LET startMs == normalizeToMinute(req.rawStartMs)
      endMs == normalizeToMinute(req.rawEndMs)
  IN /\ req.op = "normalizeInterval"
     /\ res = NoResponse
     /\ res' = [op |-> "normalizeInterval",
                rawValid |-> isValidInterval(req.rawStartMs, req.rawEndMs),
                startMs |-> startMs,
                endMs |-> endMs,
                valid |-> isValidInterval(startMs, endMs),
                again |-> <<normalizeToMinute(startMs), normalizeToMinute(endMs)>>]
     /\ UNCHANGED <<rooms, nextReservationId, now, req, waiting, issued, deleted>>

SpecInterval == InitInterval /\ [][NormalizeInterval]_vars

TypeOK ==
  /\ nextReservationId \in 1..(MaxId + 1)
  /\ now \in Clock
  /\ Len(rooms) = ROOM_COUNT
  /\ req \in Requests \cup {NoRequest}
  /\ waiting \in Requests \cup {NoRequest}

(***************************************************************************)
(* Vocabulary of the properties: the request in flight as the              *)
(* specification describes it, independent of the helpers of the handlers. *)
(***************************************************************************)
\* the room a request addresses: its id when the :roomId parameter is an
\* integer in 1..10 (room i is rooms[i]), 0 otherwise
ReqRoom ==
  IF req.roomId.kind = "num" /\ req.roomId.den = 1 /\ req.roomId.num \in 1..ROOM_COUNT
    THEN req.roomId.num ELSE 0

\* the instant an ISO text denotes
InstantOf(text) == ((text.d * 24 + text.h) * 60 + text.m) * 60000 + text.s * 1000 + text.ms

\* floor to the start of the minute
Truncate(t) == t - (t % 60000)

MaxDurationMs == 12 * 60 * 60000

ReqParses == req.start.kind = "iso" /\ req.end.kind = "iso"
RawStart == InstantOf(req.start)
RawEnd == InstantOf(req.end)
CandStart == Truncate(RawStart)
CandEnd == Truncate(RawEnd)

\* the create request in flight names a room and a well-formed interval,
\* before and after truncation
WellFormedCreate ==
  /\ req.op = "create"
  /\ ReqRoom # 0
  /\ ReqParses
  /\ RawEnd > RawStart
  /\ CandEnd > CandStart

\* the stored reservation r overlaps the candidate of the request in flight
OverlapsCand(r) == CandStart < r.endMs /\ r.startMs < CandEnd

\* the positions <<room, index>> of all reservations stored
AllStored ==
  UNION {{<<i, k>> : k \in 1..Len(rooms[i].reservations)} : i \in 1..Len(rooms)}

StoreUnchanged == rooms' = rooms /\ nextReservationId' = nextReservationId

(***************************************************************************)
(* C1: in every room no two distinct stored reservations overlap as        *)
(* half-open intervals: never a.start < b.end and b.start < a.end.         *)
(***************************************************************************)
C1_NoOverlap ==
  \A i \in 1..Len(rooms) :
    \A a, b \in 1..Len(rooms[i].reservations) :
      a # b =>
        ~(/\ rooms[i].reservations[a].startMs < rooms[i].reservations[b].endMs
          /\ rooms[i].reservations[b].startMs < rooms[i].reservations[a].endMs)

\* a room holds two reservations at the same time
C1_Witness ==
  \E i \in 1..Len(rooms) : Len(rooms[i].reservations) >= 2

(***************************************************************************)
(* C2: a create request whose truncated duration exceeds 12 hours is       *)
(* rejected and stores nothing, so no stored reservation lasts longer      *)
(* than 43,200,000 ms.                                                     *)
(***************************************************************************)
C2_TooLongRejected ==
  [][WellFormedCreate /\ CandEnd - CandStart > MaxDurationMs
       => res'.status # 201 /\ StoreUnchanged]_vars

(***************************************************************************)
(* C3: a create request that passes the interval checks and overlaps a     *)
(* reservation stored in its room is answered with the conflict (409),     *)
(* and the conflict names the id, display start and display end of a       *)
(* stored reservation of that room that overlaps the candidate.            *)
(***************************************************************************)
C3_OverlapIsConflict ==
  [][(/\ WellFormedCreate
      /\ CandStart >= Truncate(now)
      /\ CandEnd - CandStart <= MaxDurationMs
      /\ \E k \in 1..Len(rooms[ReqRoom].reservations) :
           OverlapsCand(rooms[ReqRoom].reservations[k]))
       => /\ res'.status = 409
          /\ res'.error = "Time conflict with existing reservation"
          /\ StoreUnchanged
          /\ \E k \in 1..Len(rooms[ReqRoom].reservations) :
               LET r == rooms[ReqRoom].reservations[k]
               IN /\ OverlapsCand(r)
                  /\ res'.conflict = <<[id |-> r.id, start |-> r.startIso, end |-> r.endIso]>>]_vars

\* a conflict was answered, naming a reservation that is stored
C3_Witness ==
  /\ res.op = "create"
  /\ res.status = 409
  /\ \E i \in 1..Len(rooms) : \E k \in 1..Len(rooms[i].reservations) :
       res.conflict[1].id = rooms[i].reservations[k].id

(***************************************************************************)
(* C4: back-to-back reservations never conflict: an otherwise valid create *)
(* whose candidate starts exactly where a stored reservation of the room   *)
(* ends, or ends exactly where one starts, and overlaps nothing, succeeds  *)
(* and both reservations are stored.                                       *)
(***************************************************************************)
C4_BackToBack ==
  [][(/\ WellFormedCreate
      /\ CandStart >= Truncate(now)
      /\ CandEnd - CandStart <= MaxDurationMs
      /\ \E k \in 1..Len(rooms[ReqRoom].reservations) :
           \/ rooms[ReqRoom].reservations[k].endMs = CandStart
           \/ rooms[ReqRoom].reservations[k].startMs = CandEnd
      /\ \A k \in 1..Len(rooms[ReqRoom].reservations) :
           ~OverlapsCand(rooms[ReqRoom].reservations[k]))
       => /\ res'.status = 201
          /\ Len(rooms'[ReqRoom].reservations) = Len(rooms[ReqRoom].reservations) + 1
          /\ SubSeq(rooms'[ReqRoom].reservations, 1, Len(rooms[ReqRoom].reservations))
               = rooms[ReqRoom].reservations
          /\ LET r == rooms'[ReqRoom].reservations[Len(rooms'[ReqRoom].reservations)]
             IN r.startMs = CandStart /\ r.endMs = CandEnd]_vars

\* the reservation just created ends exactly where an older reservation of
\* its room starts
C4_Witness ==
  /\ res.op = "create"
  /\ res.status = 201
  /\ \E i \in 1..Len(rooms) :
       LET rs == rooms[i].reservations
       IN /\ Len(rs) >= 2
          /\ rs[Len(rs)].id = res.reservation[1].id
          /\ \E k \in 1..(Len(rs) - 1) : rs[k].startMs = rs[Len(rs)].endMs

(***************************************************************************)
(* C5: a create request whose raw instants parse with rawEnd > rawStart    *)
(* but whose truncated instants have endTruncated <= startTruncated is     *)
(* rejected as invalid after normalization, and nothing is stored.         *)
(***************************************************************************)
C5_TruncationCollapse ==
  [][(/\ req.op = "create"
      /\ ReqRoom # 0
      /\ ReqParses
      /\ RawEnd > RawStart
      /\ CandEnd <= CandStart)
       => /\ res'.status = 400
          /\ res'.error = "Invalid interval after normalization"
          /\ StoreUnchanged]_vars

C5_Witness ==
  /\ res.op = "create"
  /\ res.status = 400
  /\ res.error = "Invalid interval after normalization"

(***************************************************************************)
(* C6: a create whose truncated start is earlier than the truncated clock  *)
(* is rejected as a past start; one whose truncated start equals the       *)
(* truncated clock is not, and is accepted when the remaining checks pass. *)
(***************************************************************************)
C6_PastStart ==
  [][WellFormedCreate
       => /\ CandStart < Truncate(now)
               => /\ res'.status = 400
                  /\ res'.error = "Reservation start time in UTC is in the past"
                  /\ StoreUnchanged
          /\ CandStart = Truncate(now)
               => /\ res'.error # "Reservation start time in UTC is in the past"
                  /\ (/\ CandEnd - CandStart <= MaxDurationMs
                      /\ \A k \in 1..Len(rooms[ReqRoom].reservations) :
                           ~OverlapsCand(rooms[ReqRoom].reservations[k]))
                       => res'.status = 201]_vars

\* a reservation starting in the minute of its creation is stored, and a
\* later request was rejected for its past start
C6_Witness ==
  /\ res.op = "create"
  /\ res.error = "Reservation start time in UTC is in the past"
  /\ \E i \in 1..Len(rooms) : \E k \in 1..Len(rooms[i].reservations) :
       rooms[i].reservations[k].startMs
         = Truncate(InstantOf(rooms[i].reservations[k].createdAt))

(***************************************************************************)
(* C7: a create request that ends in a failure leaves the store unchanged: *)
(* every room's reservations and the reservation-id counter.               *)
(***************************************************************************)
C7_FailedCreateKeepsStore ==
  [][req.op = "create" /\ res'.status # 201 => StoreUnchanged]_vars

\* a conflict was answered while ids had been handed out
C7_Witness ==
  /\ res.op = "create"
  /\ res.status = 409
  /\ nextReservationId > 1

(***************************************************************************)
(* C8: between two resets ids are never reused: every id returned by a     *)
(* successful create is a positive integer greater than every id returned  *)
(* before, also after deletions, so no two stored reservations, in the     *)
(* same or in different rooms, share an id.                                *)
(***************************************************************************)
C8_IdsNeverReused ==
  /\ \A k \in 1..Len(issued) : issued[k] > 0
  /\ \A j, k \in 1..Len(issued) : j < k => issued[j] < issued[k]
  /\ \A p, q \in AllStored :
       p # q => rooms[p[1]].reservations[p[2]].id # rooms[q[1]].reservations[q[2]].id
  /\ \A p \in AllStored :
       \E k \in 1..Len(issued) : issued[k] = rooms[p[1]].reservations[p[2]].id

\* a second id was handed out after the first reservation was deleted
C8_Witness ==
  /\ Len(issued) >= 2
  /\ issued[1] \in deleted
  /\ AllStored # {}

(***************************************************************************)
(* C9: ids are assigned in creation order from 1: the k-th successful      *)
(* create since start or the last reset receives id k, whatever failed     *)
(* creates, lists and deletes happened in between.                         *)
(***************************************************************************)
C9_KthCreateGetsK ==
  [][req.op = "create" /\ res'.status = 201
       => /\ Len(res'.reservation) = 1
          /\ res'.reservation[1].id = Len(issued) + 1
          /\ nextReservationId' = Len(issued) + 2]_vars

\* the second create of a run, after the first reservation was deleted
C9_Witness ==
  /\ res.op = "create"
  /\ res.status = 201
  /\ res.reservation[1].id = 2
  /\ 1 \in deleted

(***************************************************************************)
(* C10: after a successful delete of reservation id k, a later delete of k *)
(* (in that room, and in any other) before a reset answers "Reservation    *)
(* not found" and changes nothing, whatever was created in between.        *)
(***************************************************************************)
C10_DeleteTwice ==
  [][(/\ req.op = "delete"
      /\ ReqRoom # 0
      /\ req.reservationId.kind = "num"
      /\ req.reservationId.den = 1
      /\ req.reservationId.num \in deleted)
       => /\ res'.status = 404
          /\ res'.error = "Reservation not found"
          /\ StoreUnchanged
          /\ deleted' = deleted]_vars

\* a delete of an id deleted before is in flight, after a later create
C10_Witness ==
  /\ req.op = "delete"
  /\ ReqRoom # 0
  /\ req.reservationId.kind = "num"
  /\ req.reservationId.den = 1
  /\ req.reservationId.num \in deleted
  /\ Len(rooms[ReqRoom].reservations) > 0

(***************************************************************************)
(* C11: after a reset, from any reachable state, there are exactly 10      *)
(* rooms with the ids 1..10, every room lists zero reservations, and the   *)
(* next successful create receives the id 1: right after the reset the     *)
(* store is the empty one with the counter at 1, and until a create has    *)
(* succeeded every list of a room is empty and a create that succeeds      *)
(* returns the id 1.                                                       *)
(***************************************************************************)
C11_AfterReset ==
  [][/\ res'.op = "reset" =>
          /\ Len(rooms') = 10
          /\ \A i \in 1..10 : rooms'[i].id = i /\ rooms'[i].reservations = <<>>
          /\ nextReservationId' = 1
     /\ issued = <<>> /\ req.op = "list" /\ ReqRoom # 0 =>
          res'.status = 200 /\ res'.list = <<>>
     /\ issued = <<>> /\ req.op = "create" /\ res'.status = 201 =>
          res'.reservation[1].id = 1]_vars

\* a reset has just run, later than the first one a run can make: the
\* clock has moved on from its first value
C11_Witness ==
  res.op = "reset" /\ now # HalfMinute /\ nextReservationId = 1

(***************************************************************************)
(* C12: a list for a room returns exactly the reservations stored in that  *)
(* room, no more, no fewer, none from another room, ordered by ascending   *)
(* start instant, whatever the order in which they were inserted.          *)
(***************************************************************************)
C12_ListIsRoomSorted ==
  [][req.op = "list" /\ ReqRoom # 0 =>
       LET stored == rooms[ReqRoom].reservations
           out == res'.list
       IN /\ res'.status = 200
          /\ Len(out) = Len(stored)
          /\ \A k \in 1..Len(stored) :
                \E j \in 1..Len(out) :
                  /\ out[j].id = stored[k].id
                  /\ out[j].start = stored[k].startIso
                  /\ out[j].end = stored[k].endIso
          /\ \A j \in 1..Len(out) : \E k \in 1..Len(stored) : out[j].id = stored[k].id
          /\ \A j \in 1..(Len(out) - 1) :
                InstantOf(out[j].start) <= InstantOf(out[j + 1].start)
          /\ StoreUnchanged]_vars

\* a list answered two reservations that the room stores in the other
\* order: the later one was inserted first
C12_Witness ==
  /\ res.op = "list"
  /\ Len(res.list) = 2
  /\ \E i \in 1..Len(rooms) :
       /\ Len(rooms[i].reservations) = 2
       /\ rooms[i].reservations[1].id = res.list[2].id
       /\ rooms[i].reservations[1].startMs > rooms[i].reservations[2].startMs

(***************************************************************************)
(* C13: round trip.  After a successful create with the inputs (start,     *)
(* end) the room holds, and so a list of the room returns, an entry with   *)
(* the id the create returned whose display start and display end denote   *)
(* truncate(parse(start)) and truncate(parse(end)); and the display times  *)
(* of every stored reservation, as every list returns them, denote its     *)
(* stored start and end instants.                                          *)
(***************************************************************************)
C13_RoundTrip ==
  [][/\ req.op = "create" /\ res'.status = 201 =>
          LET v == res'.reservation[1]
          IN /\ InstantOf(v.start) = CandStart
             /\ InstantOf(v.end) = CandEnd
             /\ \E k \in 1..Len(rooms'[ReqRoom].reservations) :
                   LET r == rooms'[ReqRoom].reservations[k]
                   IN /\ r.id = v.id
                      /\ r.startIso = v.start /\ r.endIso = v.end
                      /\ r.startMs = CandStart /\ r.endMs = CandEnd
     /\ \A p \in AllStored :
          LET r == rooms[p[1]].reservations[p[2]]
          IN InstantOf(r.startIso) = r.startMs /\ InstantOf(r.endIso) = r.endMs
     /\ req.op = "list" /\ ReqRoom # 0 =>
          \A k \in 1..Len(rooms[ReqRoom].reservations) :
            LET r == rooms[ReqRoom].reservations[k]
            IN \E j \in 1..Len(res'.list) :
                 /\ res'.list[j].id = r.id
                 /\ InstantOf(res'.list[j].start) = r.startMs
                 /\ InstantOf(res'.list[j].end) = r.endMs]_vars

\* a list returned a reservation that a create stored: its display end
\* reads 12:01, its display start an earlier whole minute
C13_Witness ==
  /\ res.op = "list"
  /\ \E j \in 1..Len(res.list) :
       /\ res.list[j].end.h = 12 /\ res.list[j].end.m = 1
       /\ InstantOf(res.list[j].start) < InstantOf(res.list[j].end)
       /\ \E p \in AllStored : rooms[p[1]].reservations[p[2]].id = res.list[j].id

(***************************************************************************)
(* C14: every create, list or delete request whose room id is not an       *)
(* integer (1.5, text) or is an integer outside 1..10 ends in RoomNotFound *)
(* (404 "Room not found"), never in another outcome such as an internal    *)
(* failure, and leaves the store unchanged.                                *)
(***************************************************************************)
C14_RoomNotFound ==
  [][req.op \in {"create", "list", "delete"} /\ ReqRoom = 0 /\ req' = NoRequest =>
       /\ res'.status = 404
       /\ res'.error = "Room not found"
       /\ StoreUnchanged]_vars

(***************************************************************************)
(* C15: a delete request on an existing room whose reservation id is not   *)
(* a valid integer (text, or a non-integer number such as 1.5) ends in     *)
(* InvalidReservationId (400 "Invalid reservation id"), not in             *)
(* ReservationNotFound, and leaves the store unchanged.                    *)
(***************************************************************************)
C15_InvalidReservationId ==
  [][/\ req.op = "delete"
     /\ ReqRoom # 0
     /\ req.reservationId.kind = "text" \/ req.reservationId.den # 1
     =>
       /\ res'.status = 400
       /\ res'.error = "Invalid reservation id"
       /\ StoreUnchanged]_vars

(***************************************************************************)
(* C16: a create request on an existing room whose input lacks start or    *)
(* lacks end ends in MissingField (400, the body must include start and    *)
(* end), before any time parsing: whatever the other field holds, also     *)
(* when it does not parse; and stores nothing.                             *)
(***************************************************************************)
C16_MissingField ==
  [][/\ req.op = "create"
     /\ ReqRoom # 0
     /\ req.start.kind = "absent" \/ req.end.kind = "absent"
     =>
       /\ res'.status = 400
       /\ res'.error = "Request body must include start and end"
       /\ StoreUnchanged]_vars

\* the create in flight lacks its end and its start does not parse
C16_Witness ==
  /\ req.op = "create"
  /\ ReqRoom # 0
  /\ req.end.kind = "absent"
  /\ req.start.kind = "garbage"

(***************************************************************************)
(* C17: parseIsoToMs returns the failure value NaN when its input is not   *)
(* a string or does not parse to a date-time; a create request on an       *)
(* existing room, with both fields given, in which start or end yields     *)
(* that value is rejected as MalformedTime (400 "Invalid times") and       *)
(* stores nothing; no stored reservation has a non-finite instant.         *)
(***************************************************************************)
C17_MalformedTime ==
  [][req.op = "create" /\ req' = NoRequest =>
       /\ \A text \in {req.start, req.end} :
            text.kind # "iso" => parseIsoToMs(text) = NaN
       /\ /\ ReqRoom # 0
          /\ req.start.kind # "absent" /\ req.end.kind # "absent"
          /\ req.start.kind # "iso" \/ req.end.kind # "iso"
          =>
            /\ res'.status = 400
            /\ res'.error = "Invalid times"
            /\ StoreUnchanged
       /\ \A i \in 1..Len(rooms') : \A k \in 1..Len(rooms'[i].reservations) :
            /\ rooms'[i].reservations[k].startMs \in Nat
            /\ rooms'[i].reservations[k].endMs \in Nat]_vars

\* the create in flight on a room that holds a reservation has an
\* unparseable string for its start and an instant for its end
C17_Witness ==
  /\ req.op = "create"
  /\ ReqRoom # 0
  /\ req.start.kind = "garbage"
  /\ req.end.kind = "iso"
  /\ rooms[ReqRoom].reservations # <<>>

(***************************************************************************)
(* The failure kind of the request in flight, by the taxonomy of the       *)
(* specification and its order of checks; "none" when no rule is violated. *)
(***************************************************************************)
CreateKind ==
  IF ReqRoom = 0 THEN "RoomNotFound"
  ELSE IF req.start.kind = "absent" \/ req.end.kind = "absent" THEN "MissingField"
  ELSE IF ~ReqParses THEN "MalformedTime"
  ELSE IF RawEnd <= RawStart \/ CandEnd <= CandStart THEN "InvalidInterval"
  ELSE IF CandStart < Truncate(now) THEN "PastStart"
  ELSE IF CandEnd - CandStart > MaxDurationMs THEN "TooLong"
  ELSE IF \E k \in 1..Len(rooms[ReqRoom].reservations) :
            OverlapsCand(rooms[ReqRoom].reservations[k]) THEN "Conflict"
  ELSE "none"

DeleteKind ==
  IF ReqRoom = 0 THEN "RoomNotFound"
  ELSE IF req.reservationId.kind = "text" \/ req.reservationId.den # 1
    THEN "InvalidReservationId"
  ELSE IF \A k \in 1..Len(rooms[ReqRoom].reservations) :
            rooms[ReqRoom].reservations[k].id # req.reservationId.num
    THEN "ReservationNotFound"
  ELSE "none"

RequestKind ==
  IF req.op = "create" THEN CreateKind
  ELSE IF req.op = "delete" THEN DeleteKind
  ELSE IF req.op = "list" /\ ReqRoom = 0 THEN "RoomNotFound"
  ELSE "none"

Kinds ==
  {"RoomNotFound", "MissingField", "MalformedTime", "InvalidInterval", "PastStart",
   "TooLong", "Conflict", "ReservationNotFound", "InvalidReservationId"}

\* one outcome for each kind, <<status, message>>, no two alike: the message
\* the handlers have for the kind, and for TooLong the 400 the README gives
KindOutcome ==
  [k \in Kinds |->
     CASE k = "RoomNotFound" -> <<404, "Room not found">>
       [] k = "MissingField" -> <<400, "Request body must include start and end">>
       [] k = "MalformedTime" -> <<400, "Invalid times">>
       [] k = "InvalidInterval" -> <<400, "Invalid interval after normalization">>
       [] k = "PastStart" -> <<400, "Reservation start time in UTC is in the past">>
       [] k = "TooLong" -> <<400, "Reservation is longer than the maximum duration">>
       [] k = "Conflict" -> <<409, "Time conflict with existing reservation">>
       [] k = "ReservationNotFound" -> <<404, "Reservation not found">>
       [] k = "InvalidReservationId" -> <<400, "Invalid reservation id">>]

(***************************************************************************)
(* C18: each failure kind of the taxonomy maps to exactly one outcome that *)
(* is distinguishable from the outcome of every other kind, so that a      *)
(* caller can branch on the kind: the outcomes of two kinds differ, and a  *)
(* request of a kind is answered with the outcome of that kind.  This      *)
(* covers MalformedTime against InvalidInterval and PastStart against      *)
(* TooLong.                                                                *)
(***************************************************************************)
C18_KindsDistinguishable ==
  [][req # NoRequest /\ req' = NoRequest /\ RequestKind # "none" =>
       /\ \A k1, k2 \in Kinds : k1 # k2 => KindOutcome[k1] # KindOutcome[k2]
       /\ <<res'.status, res'.error>> = KindOutcome[RequestKind]]_vars

(***************************************************************************)
(* C19: the create checks run in a fixed order and stop at the first       *)
(* failure: room lookup, missing field, raw instants well-formed,          *)
(* truncated instants well-formed, past start, maximum duration, overlap.  *)
(* A request that violates several rules gets the outcome of the earliest  *)
(* failing check: a candidate in the past that overlaps a stored           *)
(* reservation yields PastStart, never Conflict, and a candidate longer    *)
(* than 12 hours that overlaps a stored reservation yields TooLong (a      *)
(* 400), never Conflict.                                                   *)
(***************************************************************************)
C19_FirstFailureWins ==
  [][req.op = "create" /\ req' = NoRequest =>
       LET overlap == \E k \in 1..Len(rooms[ReqRoom].reservations) :
                        OverlapsCand(rooms[ReqRoom].reservations[k])
           past == CandStart < Truncate(now)
           tooLong == CandEnd - CandStart > MaxDurationMs
       IN /\ ReqRoom = 0 => res'.status = 404
          /\ ReqRoom # 0 /\ (req.start.kind = "absent" \/ req.end.kind = "absent") =>
               res'.error = "Request body must include start and end"
          /\ ReqRoom # 0 /\ ReqParses /\ RawEnd <= RawStart =>
               res'.error = "Invalid times"
          /\ ReqRoom # 0 /\ ReqParses /\ RawEnd > RawStart /\ CandEnd <= CandStart =>
               res'.error = "Invalid interval after normalization"
          /\ WellFormedCreate /\ past =>
               res'.error = "Reservation start time in UTC is in the past"
          /\ WellFormedCreate /\ ~past /\ tooLong =>
               res'.status = 400
          /\ WellFormedCreate /\ ~past /\ ~tooLong /\ overlap =>
               res'.status = 409]_vars

(***************************************************************************)
(* C20: each create or delete request is atomic with respect to the store; *)
(* no step of another request occurs between the overlap check of a create *)
(* and its insert.  So of two create requests on the same room that are in *)
(* flight at the same time with overlapping candidate intervals, in either *)
(* order of handling, at most one succeeds; when the first has succeeded   *)
(* the second does not and leaves the store as it is; and the stored       *)
(* reservations of a room stay pairwise non-overlapping.                   *)
(***************************************************************************)
C20_AtMostOneSucceeds ==
  [][/\ /\ req.op = "create" /\ WellFormedCreate
        /\ res.op = "create" /\ res.status = 201
        /\ \E k \in 1..Len(rooms[ReqRoom].reservations) :
             rooms[ReqRoom].reservations[k].id = res.reservation[1].id
        /\ CandStart < InstantOf(res.reservation[1].end)
        /\ InstantOf(res.reservation[1].start) < CandEnd
        /\ res' # res
        =>
          /\ res'.status # 201
          /\ StoreUnchanged
     /\ \A i \in 1..Len(rooms') :
          \A a, b \in 1..Len(rooms'[i].reservations) :
            a < b =>
              \/ rooms'[i].reservations[a].endMs <= rooms'[i].reservations[b].startMs
              \/ rooms'[i].reservations[b].endMs <= rooms'[i].reservations[a].startMs]_vars

\* the first of two creates that were in flight together has succeeded and
\* the second, on the same room with an overlapping candidate, is next
C20_Witness ==
  /\ WellFormedCreate
  /\ res.op = "create" /\ res.status = 201
  /\ \E k \in 1..Len(rooms[ReqRoom].reservations) :
       rooms[ReqRoom].reservations[k].id = res.reservation[1].id
  /\ CandStart < InstantOf(res.reservation[1].end)
  /\ InstantOf(res.reservation[1].start) < CandEnd
  /\ nextReservationId <= MaxId

(***************************************************************************)
(* C21: in every reachable state every stored reservation is well-formed   *)
(* and minute-aligned: its end instant is after its start instant and both *)
(* are multiples of 60000.                                                 *)
(***************************************************************************)
C21_StoredWellFormed ==
  \A p \in AllStored :
    LET r == rooms[p[1]].reservations[p[2]]
    IN /\ r.endMs > r.startMs
       /\ r.startMs % 60000 = 0
       /\ r.endMs % 60000 = 0

\* a create has just been answered 201 and its reservation is stored
\* with the interval [00:00, 00:01)
C21_Witness ==
  /\ res.op = "create" /\ res.status = 201
  /\ \E p \in AllStored :
       LET r == rooms[p[1]].reservations[p[2]]
       IN r.id = res.reservation[1].id /\ r.startMs = 0 /\ r.endMs = 60000

(***************************************************************************)
(* C22: the room catalog is fixed: in every reachable state, after any     *)
(* sequence of create, delete, list and reset requests, the store holds    *)
(* exactly 10 rooms whose ids are exactly 1..10, each id once.             *)
(***************************************************************************)
C22_CatalogFixed ==
  /\ Len(rooms) = 10
  /\ {rooms[i].id : i \in 1..Len(rooms)} = 1..10
  /\ \A i, j \in 1..Len(rooms) : rooms[i].id = rooms[j].id => i = j

\* reservations have been created and one deleted, one is still stored
C22_Witness ==
  /\ Len(issued) = 2
  /\ deleted # {}
  /\ AllStored # {}

(***************************************************************************)
(* C23: when a candidate interval overlaps several stored reservations of  *)
(* the room, the Conflict outcome reports the first overlapping one in     *)
(* stored (insertion) order, the one created earliest among those still    *)
(* stored: one reservation, not the one with the earliest start and not    *)
(* all of them.                                                            *)
(***************************************************************************)
C23_FirstStoredConflict ==
  [][req.op = "create" /\ res'.status = 409 =>
       LET stored == rooms[ReqRoom].reservations
           hits == {k \in 1..Len(stored) : OverlapsCand(stored[k])}
       IN /\ hits # {}
          /\ Len(res'.conflict) = 1
          /\ \E k \in hits :
               /\ \A j \in hits : k <= j /\ stored[k].id <= stored[j].id
               /\ res'.conflict[1].id = stored[k].id
               /\ res'.conflict[1].start = stored[k].startIso
               /\ res'.conflict[1].end = stored[k].endIso]_vars

\* the candidate of the create in flight, not in the past, overlaps both
\* reservations of its room, and the one stored first starts later
C23_Witness ==
  /\ WellFormedCreate
  /\ CandStart >= Truncate(now)
  /\ Len(rooms[ReqRoom].reservations) = 2
  /\ OverlapsCand(rooms[ReqRoom].reservations[1])
  /\ OverlapsCand(rooms[ReqRoom].reservations[2])
  /\ rooms[ReqRoom].reservations[1].startMs > rooms[ReqRoom].reservations[2].startMs

(***************************************************************************)
(* C24: rooms are isolated.  A successful create or delete on a room       *)
(* leaves the reservations of every other room unchanged; reservations     *)
(* stored in another room never cause a Conflict, so the same interval can *)
(* be reserved in two rooms at the same time; and a delete on a room with  *)
(* the id of a reservation stored in another room returns                  *)
(* ReservationNotFound and removes nothing.                                *)
(***************************************************************************)
C24_RoomsIsolated ==
  [][req.op \in {"create", "delete"} /\ ReqRoom # 0 /\ res' # res =>
       LET own == rooms[ReqRoom].reservations
           elsewhere == {p \in AllStored : p[1] # ReqRoom}
       IN /\ \A i \in 1..Len(rooms) : i # ReqRoom => rooms'[i] = rooms[i]
          /\ /\ WellFormedCreate
             /\ CandStart >= Truncate(now)
             /\ CandEnd - CandStart <= MaxDurationMs
             /\ \A k \in 1..Len(own) : ~OverlapsCand(own[k])
             => res'.status = 201
          /\ req.op = "create" /\ res'.status = 409 =>
               \A p \in elsewhere :
                 rooms[p[1]].reservations[p[2]].id # res'.conflict[1].id
          /\ /\ req.op = "delete"
             /\ req.reservationId.kind = "num" /\ req.reservationId.den = 1
             /\ \E p \in elsewhere :
                  rooms[p[1]].reservations[p[2]].id = req.reservationId.num
             => /\ res'.status = 404
                /\ res'.error = "Reservation not found"
                /\ rooms' = rooms]_vars

\* two rooms hold a reservation for the same interval, and the delete in
\* flight names the one room and the id of the reservation of the other
C24_Witness ==
  /\ req.op = "delete"
  /\ ReqRoom # 0
  /\ req.reservationId.kind = "num" /\ req.reservationId.den = 1
  /\ Len(rooms[ReqRoom].reservations) = 1
  /\ \E i \in 1..Len(rooms) :
       /\ i # ReqRoom
       /\ Len(rooms[i].reservations) = 1
       /\ rooms[i].reservations[1].id = req.reservationId.num
       /\ rooms[i].reservations[1].startMs = rooms[ReqRoom].reservations[1].startMs
       /\ rooms[i].reservations[1].endMs = rooms[ReqRoom].reservations[1].endMs

C26_OverlapPredicate ==
  res.op = "intervalsOverlap" =>
    /\ res.value = (req.aStart < req.bEnd /\ req.bStart < req.aEnd)
    /\ res.value = (\E t \in 0..OverlapSpan :
                      /\ req.aStart <= t /\ t < req.aEnd
                      /\ req.bStart <= t /\ t < req.bEnd)
    /\ res.value = res.swapped

\* the predicate has answered false for two intervals that touch: the
\* first ends where the second starts
C26_Witness ==
  /\ res.op = "intervalsOverlap"
  /\ req.aEnd = req.bStart
  /\ res.value = FALSE

(***************************************************************************)
(* C27: truncateToMinute(instant) equals instant - (instant mod 60000) for *)
(* every integer instant, negative ones included: the result is a multiple *)
(* of 60000, is at most the instant, and is less than 60000 below it.      *)
(***************************************************************************)
C27_TruncateIsFloor ==
  res.op = "normalizeToMinute" =>
    /\ res.value = req.ms - (req.ms % 60000)
    /\ res.value % 60000 = 0
    /\ res.value <= req.ms
    /\ req.ms - res.value < 60000

\* a negative instant inside a minute has been truncated
C27_Witness ==
  /\ res.op = "normalizeToMinute"
  /\ req.ms < 0
  /\ req.ms % 60000 # 0
  /\ res.value < req.ms

(***************************************************************************)
(* C28: a create request whose raw start is earlier than the raw current   *)
(* instant but lies in the same minute as the current instant is not       *)
(* rejected as PastStart, because the truncated start is compared with the *)
(* truncated current instant: it is answered 409 when it overlaps a stored *)
(* reservation of the room and 201 otherwise.                              *)
(***************************************************************************)
C28_SameMinuteNotPast ==
  [][/\ WellFormedCreate
     /\ RawStart < now
     /\ Truncate(RawStart) = Truncate(now)
     /\ CandEnd - CandStart <= MaxDurationMs
     /\ res' # res
     =>
       /\ res'.error # "Reservation start time in UTC is in the past"
       /\ res'.status =
            IF \E k \in 1..Len(rooms[ReqRoom].reservations) :
                 OverlapsCand(rooms[ReqRoom].reservations[k])
              THEN 409 ELSE 201]_vars

\* the create in flight starts at 00:00:00 while the clock reads 00:00:30
C28_Witness ==
  /\ WellFormedCreate
  /\ RawStart < now
  /\ Truncate(RawStart) = Truncate(now)
  /\ nextReservationId <= MaxId

(***************************************************************************)
(* C30: a failed delete (ReservationNotFound, InvalidReservationId or      *)
(* RoomNotFound), including a delete of an id that was never assigned,     *)
(* leaves the reservations of every room and the global id counter         *)
(* unchanged.                                                              *)
(***************************************************************************)
C30_FailedDeleteKeepsStore ==
  [][req.op = "delete" /\ res' # res /\ res'.status # 200 =>
       /\ res'.status \in {400, 404}
       /\ \A i \in 1..Len(rooms) : rooms'[i].reservations = rooms[i].reservations
       /\ StoreUnchanged]_vars

\* the delete in flight names a room that holds a reservation and an id
\* that no create has received yet
C30_Witness ==
  /\ req.op = "delete"
  /\ ReqRoom # 0
  /\ rooms[ReqRoom].reservations # <<>>
  /\ req.reservationId.kind = "num" /\ req.reservationId.den = 1
  /\ req.reservationId.num >= nextReservationId

(***************************************************************************)
(* C29: deleting a reservation frees its slot.  After a successful delete  *)
(* of a reservation with the interval [s, e) from a room, a create for the *)
(* same [s, e) in that room, still not in the past and overlapping no      *)
(* other stored reservation, succeeds and receives a new id greater than   *)
(* the deleted one.                                                        *)
(***************************************************************************)
C29_DeleteFreesSlot ==
  [][/\ res.op = "delete" /\ res.status = 200
     /\ WellFormedCreate
     /\ ReqRoom = res.roomId
     /\ CandStart = InstantOf(res.reservation[1].start)
     /\ CandEnd = InstantOf(res.reservation[1].end)
     /\ CandStart >= Truncate(now)
     /\ \A k \in 1..Len(rooms[ReqRoom].reservations) :
          rooms[ReqRoom].reservations[k].id # res.reservation[1].id =>
            ~OverlapsCand(rooms[ReqRoom].reservations[k])
     /\ res' # res
     =>
       /\ res'.status = 201
       /\ res'.reservation[1].id > res.reservation[1].id
       /\ InstantOf(res'.reservation[1].start) = CandStart
       /\ InstantOf(res'.reservation[1].end) = CandEnd]_vars

\* a delete has just been answered 200 and the next request is a create
\* for the interval of the deleted reservation in the same room
C29_Witness ==
  /\ res.op = "delete" /\ res.status = 200
  /\ WellFormedCreate
  /\ ReqRoom = res.roomId
  /\ CandStart = InstantOf(res.reservation[1].start)
  /\ CandEnd = InstantOf(res.reservation[1].end)
  /\ CandStart >= Truncate(now)
  /\ \A k \in 1..Len(rooms[ReqRoom].reservations) :
       ~OverlapsCand(rooms[ReqRoom].reservations[k])
  /\ nextReservationId <= MaxId

\* the id of the first reservation, in stored order, that overlaps [s, e),
\* 0 when none does
FirstOverlapId(reservations, s, e) ==
  LET hits == {k \in 1..Len(reservations) :
                 s < reservations[k].endMs /\ reservations[k].startMs < e}
  IN IF hits = {} THEN 0
     ELSE reservations[CHOOSE k \in hits : \A j \in hits : k <= j].id

(***************************************************************************)
(* C31: list is read-only.  It sorts a copy, so after a list request the   *)
(* stored reservations of every room, contents and insertion order, and    *)
(* the global id counter are unchanged, and the reservation a later        *)
(* Conflict reports is the one it would have reported without the list.    *)
(***************************************************************************)
C31_ListReadOnly ==
  [][req.op = "list" /\ res' # res =>
       /\ \A i \in 1..Len(rooms) : rooms'[i].reservations = rooms[i].reservations
       /\ rooms' = rooms
       /\ nextReservationId' = nextReservationId
       /\ \A i \in 1..Len(rooms) : \A a, b \in 0..2 :
            FirstOverlapId(rooms'[i].reservations, a * 60000, b * 60000) =
              FirstOverlapId(rooms[i].reservations, a * 60000, b * 60000)]_vars

\* the list in flight names a room that stores two reservations with the
\* later start first
C31_Witness ==
  /\ req.op = "list"
  /\ ReqRoom # 0
  /\ Len(rooms[ReqRoom].reservations) = 2
  /\ rooms[ReqRoom].reservations[1].startMs > rooms[ReqRoom].reservations[2].startMs

(***************************************************************************)
(* C32: in every list result the entries are strictly ordered and          *)
(* disjoint: of two consecutive entries the later one starts strictly      *)
(* after the start of the earlier one and not before its end; so no two    *)
(* reservations of a room ever share a start instant.                      *)
(***************************************************************************)
C32_ListStrictlyOrdered ==
  /\ res.op = "list" =>
       \A j \in 1..(Len(res.list) - 1) :
         /\ InstantOf(res.list[j + 1].start) > InstantOf(res.list[j].start)
         /\ InstantOf(res.list[j + 1].start) >= InstantOf(res.list[j].end)
  /\ \A i \in 1..Len(rooms) :
       \A a, b \in 1..Len(rooms[i].reservations) :
         a # b => rooms[i].reservations[a].startMs # rooms[i].reservations[b].startMs

\* a list has returned two entries that touch: the second starts at the
\* end of the first
C32_Witness ==
  /\ res.op = "list"
  /\ Len(res.list) = 2
  /\ InstantOf(res.list[2].start) = InstantOf(res.list[1].end)

(***************************************************************************)
(* C33: in every reachable state the id counter is strictly greater than   *)
(* the id of every stored reservation of every room, and equals 1 plus     *)
(* the number of successful creates since the process started or the       *)
(* storage was last reset.                                                 *)
(***************************************************************************)
C33_CounterAhead ==
  /\ \A i \in 1..Len(rooms) :
       \A j \in 1..Len(rooms[i].reservations) :
         nextReservationId > rooms[i].reservations[j].id
  /\ nextReservationId = 1 + Len(issued)

\* two creates have succeeded and the first reservation has been deleted:
\* the counter counts the creates, not the reservations that remain
C33_Witness ==
  /\ nextReservationId = 3
  /\ Len(issued) = 2
  /\ Cardinality(AllStored) = 1
  /\ 1 \in deleted

(***************************************************************************)
(* C34: for every stored reservation the start instant is not earlier      *)
(* than its creation timestamp (createdAt) truncated to the minute, also   *)
(* when the clock advances between the past-start check and the capture    *)
(* of createdAt within the same create request.                            *)
(***************************************************************************)
C34_StartNotBeforeCreatedAt ==
  \A p \in AllStored :
    LET r == rooms[p[1]].reservations[p[2]]
    IN r.startMs >= Truncate(InstantOf(r.createdAt))

(***************************************************************************)
(* C34 as amended: the start of a reservation is not earlier than the      *)
(* minute of the clock that the past-start check of its create request     *)
(* read; it is not earlier than createdAt truncated to the minute when the *)
(* clock stayed within that minute until createdAt was captured.           *)
(***************************************************************************)
C34_StartNotBeforeCheckedClock ==
  [][req.op = "create" /\ res' # res /\ res'.status = 201 =>
       LET stored == rooms'[ReqRoom].reservations
           new == stored[Len(stored)]
       IN /\ new.id = res'.reservation[1].id
          /\ InstantOf(new.createdAt) = now'
          /\ new.startMs >= Truncate(now)
          /\ Truncate(now') = Truncate(now) =>
               new.startMs >= Truncate(InstantOf(new.createdAt))]_vars

\* a reservation for the minute 00:00 is stored with a createdAt of 00:01:
\* the check read the clock in the minute 00:00, the factory a minute later
C34_Witness ==
  \E p \in AllStored :
    LET r == rooms[p[1]].reservations[p[2]]
    IN r.startMs = 0 /\ InstantOf(r.createdAt) = MINUTE /\ now = MINUTE

(***************************************************************************)
(* C35: truncateToMinute is idempotent and monotone: truncating a          *)
(* truncated instant changes nothing, and x <= y implies                   *)
(* truncate(x) <= truncate(y).  Hence truncation can turn a raw end after  *)
(* the raw start into a truncated end equal to the truncated start, but    *)
(* never into a truncated end before the truncated start.                  *)
(***************************************************************************)
C35_TruncateIdempotentMonotone ==
  res.op = "normalizeInterval" =>
    /\ res.again = <<res.startMs, res.endMs>>
    /\ req.rawStartMs <= req.rawEndMs => res.startMs <= res.endMs
    /\ req.rawEndMs <= req.rawStartMs => res.endMs <= res.startMs
    /\ res.rawValid => res.endMs >= res.startMs
    /\ res.rawValid /\ ~res.valid => res.endMs = res.startMs

\* a raw end after the raw start within the same minute, before the epoch:
\* both truncate to the same instant and the second check fails
C35_Witness ==
  /\ res.op = "normalizeInterval"
  /\ req.rawStartMs < 0
  /\ req.rawEndMs > req.rawStartMs
  /\ res.rawValid
  /\ res.endMs = res.startMs
  /\ ~res.valid

====
